---- MODULE Spec2Model ----
(***************************************************************************)
(* Model of Tap2Park/manager_api_auth.                                     *)
(*                                                                         *)
(*   Identity Resolver : User.Get / GetUser           (src/user.go)        *)
(*   Credential Codec  : CreateToken / VerifyToken    (src/unnamed/part_000)*)
(*                                                                         *)
(* The resolver is modelled one storage round-trip per action, against a  *)
(* store made of the three tables the queries read (bo_user,              *)
(* bo_user_security, bo_user_locations) and the locations table of the    *)
(* sitename sub-select.  database/sql is modelled by what it does:        *)
(* QueryRow(..).Scan yields ErrNoRows when no row matches, the query's     *)
(* error when it fails, and otherwise converts the columns left to right  *)
(* into the destinations, stopping at the first column that does not       *)
(* convert (the destinations before it have been written).                *)
(***************************************************************************)
EXTENDS Integers, Sequences, FiniteSets, TLC

VARIABLES
    \* ---- the store -------------------------------------------------------
    bo_user,            \* tkn -> row of bo_user
    bo_user_security,   \* usrid -> [present, row]
    bo_user_locations,  \* userid -> sequence of locationid
    \* ---- one GetUser call ------------------------------------------------
    pc,                 \* position of the call in User.Get
    userTkn,            \* the argument
    usr,                \* the User being filled (m)
    err,                \* the error returned
    lastLogin,          \* local sql.NullTime
    passwordExpiry,     \* local sql.NullTime
    ops,                \* storage operations issued by this call and what
                        \* the store replied, in order
    logs,               \* notices this call sent to the logger, in order
    calls,              \* calls started so far
    held,               \* what the caller holds from the last call: the User
                        \* value and the error returned with it
    \* ---- the credential codec --------------------------------------------
    now,                \* time.Now().Unix()
    ticks,              \* clock advances so far
    tok,                \* the credential at hand (a token string)
    issued,             \* what CreateToken was last called with, and when
    res                 \* what VerifyToken returned for tok, if called

rvars == <<bo_user, bo_user_security, bo_user_locations,
           pc, userTkn, usr, err, lastLogin, passwordExpiry, ops, logs, calls,
           held>>

cvars == <<now, ticks, tok, issued, res>>

-----------------------------------------------------------------------------
(* Bounds *)

MaxCalls == 2

-----------------------------------------------------------------------------
(* Values *)

NoErr == "nil"
ErrUserInActive == "user account is inactive"
ErrInvalidUserToken == "invalid User Token"
ErrStorage == "there was an unexpected error reading from the database"

NullT == [Valid |-> FALSE, Time |-> 0]
ValidT(t) == [Valid |-> TRUE, Time |-> t]

\* the columns of the bo_user_security SELECT, in order, and the destination
\* each is scanned into
PermCols == << "manage_tariff", "manage_permits", "view_reports",
               "manage_locations", "manage_users", "manage_contacts",
               "manage_customer_support", "view_api", "manage_api",
               "banned_vehicles", "marketing" >>

PermDest == << "ManageTariff", "ManagePermits", "ViewReports",
               "ManageLocations", "ManageUsers", "ManageContacts",
               "ManageCustomerSupport", "ViewAPI", "ManageAPI",
               "BannedVehicles", "Marketing" >>

PermFields == { PermDest[i] : i \in 1..Len(PermDest) } \cup { "ExportData" }

ZeroPermissions == [f \in PermFields |-> FALSE]

\* a Go map: nil until make() is called
NilMap == [isNil |-> TRUE, kv |-> << >>]
EmptyMap == [isNil |-> FALSE, kv |-> << >>]

ZeroUser ==
    [ ID |-> 0, Name |-> "", Active |-> FALSE, LastLogin |-> 0, Tkn |-> "",
      PasswordExpiryDate |-> 0, Permissions |-> ZeroPermissions,
      Locations |-> NilMap ]

-----------------------------------------------------------------------------
(* The store *)

\* subjects with a row in bo_user, and one without
KnownTkns == { "u-42", "u-7" }
Subjects == KnownTkns \cup { "u-0" }

\* the columns of the bo_user SELECT that the model keeps, in order, and where
\* Scan puts each (email, entered, entered_by, clientid and user_type are
\* scanned into their fields exactly as name is)
CoreCols == << "id", "name", "active", "last_login", "tkn", "password_expiry" >>
CoreDest == << "ID", "Name", "Active", "lastLogin", "Tkn", "passwordExpiry" >>

PermColSet == { PermCols[i] : i \in 1..Len(PermCols) }
RowOf(S) == [c \in PermColSet |-> c \in S]

\* the security rows the administrative surface may store
PermRowChoices ==
    { RowOf({}), RowOf({"manage_users"}), RowOf({"manage_tariff", "marketing"}),
      RowOf(PermColSet) }

NoSecurity == [present |-> FALSE, row |-> RowOf({})]
Security(r) == [present |-> TRUE, row |-> r]

\* the grant rows (locationid) the administrative surface may store for a user
GrantChoices == { << >>, << 7, 12 >>, << 0, 7, -1 >>, << 3, 7, 7 >> }

\* table locations: code -> sitename (nullable); code 12 has no row
LocationsTable ==
    { [code |-> 7, sitename |-> [Valid |-> TRUE, String |-> "North Depot"]],
      [code |-> 3, sitename |-> [Valid |-> FALSE, String |-> ""]] }

\* coalesce((SELECT sitename FROM locations WHERE code=locationid),'')
SiteName(locationid) ==
    LET hit == { r \in LocationsTable : r.code = locationid }
    IN  IF hit = {} THEN ""
        ELSE LET r == CHOOSE x \in hit : TRUE
             IN  IF r.sitename.Valid THEN r.sitename.String ELSE ""

\* (mutant) WHERE locationid>=0
RECURSIVE LocRows_FromZero(_)
LocRows_FromZero(g) ==
    IF g = << >> THEN << >>
    ELSE LET rest == LocRows_FromZero(Tail(g))
         IN  IF Head(g) >= 0
             THEN << [lid |-> Head(g), sn |-> SiteName(Head(g))] >> \o rest
             ELSE rest

\* SELECT locationid, sitename FROM bo_user_locations WHERE locationid>0 and userid=?
RECURSIVE LocRows(_)
LocRows(g) ==
    IF g = << >> THEN << >>
    ELSE LET rest == LocRows(Tail(g))
         IN  IF Head(g) > 0
             THEN << [lid |-> Head(g), sn |-> SiteName(Head(g))] >> \o rest
             ELSE rest

\* NOW() of the store: time passes with every call
DbNow == 1 + calls

-----------------------------------------------------------------------------
(* database/sql Scan *)

\* Rows.Scan into the User and the two locals: the first k columns convert
ScanUser(m, row, k) ==
    [f \in DOMAIN m |->
        IF \E i \in 1..k : CoreDest[i] = f
        THEN row[CoreCols[CHOOSE i \in 1..k : CoreDest[i] = f]]
        ELSE m[f]]

ScanLocal(old, row, k, dest) ==
    IF \E i \in 1..k : CoreDest[i] = dest
    THEN row[CoreCols[CHOOSE i \in 1..k : CoreDest[i] = dest]]
    ELSE old

\* Rows.Scan into m.Permissions: the first k columns convert
ScanPermissions(p, row, k) ==
    [f \in PermFields |->
        IF \E i \in 1..k : PermDest[i] = f
        THEN row[PermCols[CHOOSE i \in 1..k : PermDest[i] = f]]
        ELSE p[f]]

\* m.Locations[lid] = sn
MapPut(m, lid, sn) ==
    [isNil |-> FALSE,
     kv |-> [l \in (DOMAIN m.kv) \cup {lid} |-> IF l = lid THEN sn ELSE m.kv[l]]]

\* (mutant) the loop without its else: a row that fails to scan is entered
\* with the zero values of lid and sn
RECURSIVE LoadLocations_NoElse(_, _, _, _)
LoadLocations_NoElse(m, rows, n, bad) ==
    IF n = 0 THEN m
    ELSE LET before == LoadLocations_NoElse(m, rows, n - 1, bad)
         IN  IF n \in bad THEN MapPut(before, 0, "")
             ELSE MapPut(before, rows[n].lid, rows[n].sn)

\* the for rows.Next() loop over rows 1..n, rows in bad failing to scan
RECURSIVE LoadLocations(_, _, _, _)
LoadLocations(m, rows, n, bad) ==
    IF n = 0 THEN m
    ELSE LET before == LoadLocations(m, rows, n - 1, bad)
         IN  IF n \in bad THEN before
             ELSE MapPut(before, rows[n].lid, rows[n].sn)

Warn(at) == [level |-> "warning", at |-> at]
Error(at) == [level |-> "error", at |-> at]

RECURSIVE RowWarnings(_, _)
RowWarnings(n, bad) ==
    IF n = 0 THEN << >>
    ELSE RowWarnings(n - 1, bad) \o (IF n \in bad THEN << Warn("loc-row") >> ELSE << >>)

-----------------------------------------------------------------------------
(* User.Get, one storage round-trip per action *)

store == << bo_user, bo_user_security, bo_user_locations >>

Op(op, reply) == [op |-> op, reply |-> reply]

\* (mutant) a cache in front of the store: a subject resolved before is
\* answered with the User of that call
GetUser_Cached(tkn) ==
    /\ pc = "idle"
    /\ calls < MaxCalls
    /\ calls' = calls + 1
    /\ userTkn' = tkn
    /\ IF held.called /\ held.tkn = tkn /\ held.err = NoErr
       THEN pc' = "done" /\ usr' = held.usr
       ELSE pc' = "core" /\ usr' = ZeroUser
    /\ err' = NoErr
    /\ lastLogin' = NullT
    /\ passwordExpiry' = NullT
    /\ ops' = << >>
    /\ logs' = << >>
    /\ UNCHANGED << store, held >>

\* GetUser: usr := User{}; err := usr.Get(userTkn, db)
GetUser(tkn) ==
    /\ pc = "idle"
    /\ calls < MaxCalls
    /\ calls' = calls + 1
    /\ pc' = "core"
    /\ userTkn' = tkn
    /\ usr' = ZeroUser
    /\ err' = NoErr
    /\ lastLogin' = NullT
    /\ passwordExpiry' = NullT
    /\ ops' = << >>
    /\ logs' = << >>
    /\ UNCHANGED << store, held >>

\* (mutant) every failure of the core lookup reported as an unknown subject
CoreLookup_AllInvalid(qerr, k) ==
    /\ pc = "core"
    /\ IF qerr \/ userTkn \notin DOMAIN bo_user \/ k < Len(CoreCols)
       THEN /\ ops' = Append(ops, Op("core",
                   IF qerr THEN "error"
                   ELSE IF userTkn \notin DOMAIN bo_user THEN "norows"
                   ELSE "scanerror"))
            /\ err' = ErrInvalidUserToken
            /\ pc' = "failed"
            /\ UNCHANGED << usr, lastLogin, passwordExpiry >>
       ELSE /\ usr' = ScanUser(usr, bo_user[userTkn], k)
            /\ lastLogin' = ScanLocal(lastLogin, bo_user[userTkn], k, "lastLogin")
            /\ passwordExpiry' =
                   ScanLocal(passwordExpiry, bo_user[userTkn], k, "passwordExpiry")
            /\ ops' = Append(ops, Op("core", "row"))
            /\ err' = err
            /\ pc' = "gate"
    /\ UNCHANGED << store, userTkn, logs, calls, held >>

\* db.QueryRow(SELECT ... FROM bo_user WHERE tkn=?).Scan(&m.ID, ...)
\* qerr: the query fails; k: the columns that convert before Scan stops
CoreLookup(qerr, k) ==
    /\ pc = "core"
    /\ IF qerr
       THEN /\ k = 0
            /\ ops' = Append(ops, Op("core", "error"))
            /\ err' = ErrStorage
            /\ pc' = "failed"
            /\ UNCHANGED << usr, lastLogin, passwordExpiry >>
       ELSE IF userTkn \notin DOMAIN bo_user
       THEN /\ k = 0
            /\ ops' = Append(ops, Op("core", "norows"))
            /\ err' = ErrInvalidUserToken
            /\ pc' = "failed"
            /\ UNCHANGED << usr, lastLogin, passwordExpiry >>
       ELSE /\ usr' = ScanUser(usr, bo_user[userTkn], k)
            /\ lastLogin' = ScanLocal(lastLogin, bo_user[userTkn], k, "lastLogin")
            /\ passwordExpiry' =
                   ScanLocal(passwordExpiry, bo_user[userTkn], k, "passwordExpiry")
            /\ IF k < Len(CoreCols)
               THEN /\ ops' = Append(ops, Op("core", "scanerror"))
                    /\ err' = ErrStorage
                    /\ pc' = "failed"
               ELSE /\ ops' = Append(ops, Op("core", "row"))
                    /\ err' = err
                    /\ pc' = "gate"
    /\ UNCHANGED << store, userTkn, logs, calls, held >>

\* (mutant) the gate placed after the loads: the call goes on to them
ActiveGate_NoGate ==
    /\ pc = "gate"
    /\ usr' = usr
    /\ err' = err
    /\ pc' = "perm"
    /\ UNCHANGED << store, userTkn, lastLogin, passwordExpiry, ops, logs, calls,
                    held >>

\* (mutant) an inactive account refused with the error of an unknown subject
ActiveGate_AsUnknown ==
    /\ pc = "gate"
    /\ IF ~usr.Active
       THEN /\ err' = ErrInvalidUserToken
            /\ pc' = "failed"
            /\ usr' = usr
       ELSE /\ usr' = [usr EXCEPT
                 !.LastLogin = IF lastLogin.Valid THEN lastLogin.Time ELSE @,
                 !.PasswordExpiryDate =
                     IF passwordExpiry.Valid THEN passwordExpiry.Time ELSE @]
            /\ err' = err
            /\ pc' = "perm"
    /\ UNCHANGED << store, userTkn, lastLogin, passwordExpiry, ops, logs, calls,
                    held >>

\* if !m.Active { return ErrUserInActive }, then the two nullable instants
ActiveGate ==
    /\ pc = "gate"
    /\ IF ~usr.Active
       THEN /\ err' = ErrUserInActive
            /\ pc' = "failed"
            /\ usr' = usr
       ELSE /\ usr' = [usr EXCEPT
                 !.LastLogin = IF lastLogin.Valid THEN lastLogin.Time ELSE @,
                 !.PasswordExpiryDate =
                     IF passwordExpiry.Valid THEN passwordExpiry.Time ELSE @]
            /\ err' = err
            /\ pc' = "perm"
    /\ UNCHANGED << store, userTkn, lastLogin, passwordExpiry, ops, logs, calls,
                    held >>

\* (mutant) a failed permission query tried once more
PermissionLoad_Retry(qerr, k) ==
    /\ pc = "perm"
    /\ LET sec == bo_user_security[usr.ID]
       IN  IF qerr \/ ~sec.present
           THEN /\ k = 0
                /\ ops' = Append(ops, Op("perm", IF qerr THEN "error" ELSE "norows"))
                /\ usr' = usr
                /\ logs' = Append(logs, Warn("perm"))
                /\ pc' = IF qerr /\ Len(ops) = 1 THEN "perm" ELSE "loc"
           ELSE /\ usr' = [usr EXCEPT
                      !.Permissions = ScanPermissions(@, sec.row, k)]
                /\ IF k < Len(PermCols)
                   THEN /\ ops' = Append(ops, Op("perm", "scanerror"))
                        /\ logs' = Append(logs, Warn("perm"))
                   ELSE /\ ops' = Append(ops, Op("perm", "row"))
                        /\ logs' = logs
                /\ pc' = "loc"
    /\ UNCHANGED << store, userTkn, err, lastLogin, passwordExpiry, calls, held >>

\* db.QueryRow(SELECT ... FROM bo_user_security WHERE usrid=?).Scan(&m.Permissions...)
PermissionLoad(qerr, k) ==
    /\ pc = "perm"
    /\ LET sec == bo_user_security[usr.ID]
       IN  IF qerr \/ ~sec.present
           THEN /\ k = 0
                /\ ops' = Append(ops, Op("perm", IF qerr THEN "error" ELSE "norows"))
                /\ usr' = usr
                /\ logs' = Append(logs, Warn("perm"))
           ELSE /\ usr' = [usr EXCEPT
                      !.Permissions = ScanPermissions(@, sec.row, k)]
                /\ IF k < Len(PermCols)
                   THEN /\ ops' = Append(ops, Op("perm", "scanerror"))
                        /\ logs' = Append(logs, Warn("perm"))
                   ELSE /\ ops' = Append(ops, Op("perm", "row"))
                        /\ logs' = logs
    /\ pc' = "loc"
    /\ UNCHANGED << store, userTkn, err, lastLogin, passwordExpiry, calls, held >>

\* m.Locations = make(map[int]string, 0); db.Query(...); for rows.Next() {...}
\* qerr: the query fails; n: rows delivered before rows.Next() returns false
\* (fewer than stored when the iteration breaks off); bad: rows failing to scan
LocationLoad(qerr, n, bad) ==
    /\ pc = "loc"
    /\ LET rows == LocRows(bo_user_locations[usr.ID])
       IN  IF qerr
           THEN /\ n = 0 /\ bad = {}
                /\ ops' = Append(ops, Op("loc", "error"))
                /\ usr' = [usr EXCEPT !.Locations = EmptyMap]
                /\ logs' = Append(logs, Error("loc"))
           ELSE /\ n <= Len(rows)
                /\ bad \subseteq 1..n
                /\ ops' = Append(ops, Op("loc",
                       IF n < Len(rows) THEN "broken"
                       ELSE IF bad # {} THEN "rowerror" ELSE "rows"))
                /\ usr' = [usr EXCEPT
                       !.Locations = LoadLocations(EmptyMap, rows, n, bad)]
                /\ logs' = logs \o RowWarnings(n, bad)
    /\ pc' = "login"
    /\ UNCHANGED << store, userTkn, err, lastLogin, passwordExpiry, calls, held >>

\* (mutant) the UPDATE without its WHERE clause
UpdateLastLogin_AllRows(tbl, id, at) ==
    [t \in DOMAIN tbl |-> [tbl[t] EXCEPT !.last_login = ValidT(at)]]

\* the rows of bo_user after UPDATE bo_user SET last_login=NOW() WHERE id=?
UpdateLastLogin(tbl, id, at) ==
    [t \in DOMAIN tbl |->
        IF tbl[t].id = id THEN [tbl[t] EXCEPT !.last_login = ValidT(at)]
        ELSE tbl[t]]

\* (mutant) a failed last-login write returned to the caller
LastLoginStamp_Fatal(fails) ==
    /\ pc = "login"
    /\ ops' = Append(ops, Op("login", IF fails THEN "error" ELSE "ok"))
    /\ IF fails
       THEN /\ logs' = Append(logs, Warn("login"))
            /\ bo_user' = bo_user
            /\ err' = ErrStorage
            /\ pc' = "failed"
       ELSE /\ logs' = logs
            /\ bo_user' = UpdateLastLogin(bo_user, usr.ID, DbNow)
            /\ err' = NoErr
            /\ pc' = "done"
    /\ UNCHANGED << bo_user_security, bo_user_locations, userTkn, usr,
                    lastLogin, passwordExpiry, calls, held >>

\* db.Exec(UPDATE bo_user SET last_login=NOW() WHERE id=?); return nil
LastLoginStamp(fails) ==
    /\ pc = "login"
    /\ ops' = Append(ops, Op("login", IF fails THEN "error" ELSE "ok"))
    /\ IF fails
       THEN /\ logs' = Append(logs, Warn("login"))
            /\ bo_user' = bo_user
       ELSE /\ logs' = logs
            /\ bo_user' = UpdateLastLogin(bo_user, usr.ID, DbNow)
    /\ err' = NoErr
    /\ pc' = "done"
    /\ UNCHANGED << bo_user_security, bo_user_locations, userTkn, usr,
                    lastLogin, passwordExpiry, calls, held >>

\* the caller before any call, and with the result of a call for tkn
NotHeld == [called |-> FALSE, tkn |-> "", usr |-> ZeroUser, err |-> NoErr]
Held(tkn, u, e) == [called |-> TRUE, tkn |-> tkn, usr |-> u, err |-> e]

\* return usr, err to a caller that keeps the User value and the error
ReturnHeld ==
    /\ pc \in { "done", "failed" }
    /\ pc' = "idle"
    /\ held' = Held(userTkn, usr, err)
    /\ userTkn' = ""
    /\ usr' = ZeroUser
    /\ err' = NoErr
    /\ lastLogin' = NullT
    /\ passwordExpiry' = NullT
    /\ ops' = << >>
    /\ logs' = << >>
    /\ UNCHANGED << store, calls >>

\* err := usr.Get(userTkn, db) on the User value the caller holds (the zero
\* User before any call): the receiver comes as the last call left it
Get(tkn) ==
    /\ pc = "idle"
    /\ calls < MaxCalls
    /\ calls' = calls + 1
    /\ pc' = "core"
    /\ userTkn' = tkn
    /\ usr' = held.usr
    /\ err' = NoErr
    /\ lastLogin' = NullT
    /\ passwordExpiry' = NullT
    /\ ops' = << >>
    /\ logs' = << >>
    /\ UNCHANGED << store, held >>

\* return usr, err: the caller is done with the result, the call's frame is gone
Return ==
    /\ pc \in { "done", "failed" }
    /\ pc' = "idle"
    /\ held' = held
    /\ userTkn' = ""
    /\ usr' = ZeroUser
    /\ err' = NoErr
    /\ lastLogin' = NullT
    /\ passwordExpiry' = NullT
    /\ ops' = << >>
    /\ logs' = << >>
    /\ UNCHANGED << store, calls >>

-----------------------------------------------------------------------------
(* The administrative surface, which owns the rows *)

call == << pc, userTkn, usr, err, lastLogin, passwordExpiry, ops, logs, calls,
          held >>

AdminSetActive(t, b) ==
    /\ bo_user[t].active # b
    /\ bo_user' = [bo_user EXCEPT ![t].active = b]
    /\ UNCHANGED << bo_user_security, bo_user_locations, call >>

AdminSetSecurity(id, sec) ==
    /\ bo_user_security[id] # sec
    /\ bo_user_security' = [bo_user_security EXCEPT ![id] = sec]
    /\ UNCHANGED << bo_user, bo_user_locations, call >>

AdminSetGrants(id, g) ==
    /\ bo_user_locations[id] # g
    /\ bo_user_locations' = [bo_user_locations EXCEPT ![id] = g]
    /\ UNCHANGED << bo_user, bo_user_security, call >>

\* no call is in flight
Quiescent == pc = "idle"

-----------------------------------------------------------------------------
(* Credential codec: the token string *)

MaxIdLen == 2
MaxTicks == 3

\* time.Hour * 24, in the seconds of Unix()
TokenLifetime == 86400

\* a subject identifier is a Go string: any bytes.  97 is "a"; 195 leads a
\* two-byte rune and 191 continues one, so that << 195, 191 >> is a rune and
\* either byte elsewhere is not valid UTF-8
IdBytes == { 97, 191, 195 }

RECURSIVE SeqsOfLen(_, _)
SeqsOfLen(S, n) ==
    IF n = 0 THEN { << >> }
    ELSE { << x >> \o t : x \in S, t \in SeqsOfLen(S, n - 1) }

Ids == UNION { SeqsOfLen(IdBytes, n) : n \in 0..MaxIdLen }

\* os.Getenv("SECRET_KEY") of this process, and a key it does not hold
SecretKey == "SECRET_KEY"
OtherKey == "other"

\* JSON values of the claims
JStr(s) == [t |-> "string", s |-> s, n |-> 0]
JNum(n) == [t |-> "number", s |-> << >>, n |-> n]
JAbsent == [t |-> "absent", s |-> << >>, n |-> 0]

\* utf8.DecodeRuneInString: the width of the rune s starts with, 0 if invalid
IsCont(s, i) == Len(s) >= i /\ s[i] >= 128 /\ s[i] <= 191
InRange(s, i, lo, hi) == Len(s) >= i /\ s[i] >= lo /\ s[i] <= hi
RuneWidth(s) ==
    LET b == s[1]
    IN  IF b <= 127 THEN 1
        ELSE IF b >= 194 /\ b <= 223 THEN (IF IsCont(s, 2) THEN 2 ELSE 0)
        ELSE IF b = 224
             THEN (IF InRange(s, 2, 160, 191) /\ IsCont(s, 3) THEN 3 ELSE 0)
        ELSE IF b = 237
             THEN (IF InRange(s, 2, 128, 159) /\ IsCont(s, 3) THEN 3 ELSE 0)
        ELSE IF b >= 225 /\ b <= 239
             THEN (IF IsCont(s, 2) /\ IsCont(s, 3) THEN 3 ELSE 0)
        ELSE IF b = 240
             THEN (IF InRange(s, 2, 144, 191) /\ IsCont(s, 3) /\ IsCont(s, 4)
                   THEN 4 ELSE 0)
        ELSE IF b >= 241 /\ b <= 243
             THEN (IF IsCont(s, 2) /\ IsCont(s, 3) /\ IsCont(s, 4) THEN 4 ELSE 0)
        ELSE IF b = 244
             THEN (IF InRange(s, 2, 128, 143) /\ IsCont(s, 3) /\ IsCont(s, 4)
                   THEN 4 ELSE 0)
        ELSE 0

\* U+FFFD as UTF-8
ReplacementRune == << 239, 191, 189 >>

\* the Go string read back from the JSON string json.Marshal writes for s:
\* every byte that starts no valid rune is written as U+FFFD
RECURSIVE JSONString(_)
JSONString(s) ==
    IF s = << >> THEN << >>
    ELSE LET w == RuneWidth(s)
         IN  IF w = 0 THEN ReplacementRune \o JSONString(Tail(s))
             ELSE SubSeq(s, 1, w) \o JSONString(SubSeq(s, w + 1, Len(s)))

\* jwt.MapClaims{"usertkn": usertkn, "exp": exp} as the payload segment carries it
MarshalClaims(usertkn, exp) ==
    [usertkn |-> JStr(JSONString(usertkn)), exp |-> JNum(exp)]

\* HMAC-SHA256 of the signing input (header.payload) under key: 32 bytes, taken
\* to differ whenever key or input differ
KeyByte(key) == IF key = SecretKey THEN 1 ELSE 2
AlgByte(alg) == IF alg = "HS256" THEN 1 ELSE 2
TypeByte(v) == IF v.t = "string" THEN 1 ELSE IF v.t = "number" THEN 2 ELSE 3
Pad(s, n) == s \o [i \in 1..(n - Len(s)) |-> 0]
HMAC(key, alg, claims) ==
    Pad(<< KeyByte(key), AlgByte(alg), TypeByte(claims.exp),
           (claims.exp.n \div 16777216) % 256, (claims.exp.n \div 65536) % 256,
           (claims.exp.n \div 256) % 256, claims.exp.n % 256,
           TypeByte(claims.usertkn), claims.usertkn.n % 256,
           Len(claims.usertkn.s) >> \o claims.usertkn.s, 32)

\* base64.RawURLEncoding: a character of the alphabet is its value 0..63, and 64
\* is any character outside the alphabet
ByteAt(b, j) == IF j <= Len(b) THEN b[j] ELSE 0
EncodeSegment(b) ==
    [i \in 1..((8 * Len(b) + 5) \div 6) |->
        LET o == 6 * (i - 1)
            q == o \div 8
            r == o % 8
            w == ByteAt(b, q + 1) * 256 + ByteAt(b, q + 2)
        IN  (w \div 2^(10 - r)) % 64]

\* (mutant) strict decoding: trailing bits of the last character must be zero
DecodeSegment_Strict(seg) ==
    IF \/ \E i \in 1..Len(seg) : seg[i] > 63
       \/ Len(seg) % 4 = 1
       \/ (Len(seg) % 4 = 3 /\ seg[Len(seg)] % 4 # 0)
       \/ (Len(seg) % 4 = 2 /\ seg[Len(seg)] % 16 # 0)
    THEN [ok |-> FALSE, bytes |-> << >>]
    ELSE [ok |-> TRUE,
          bytes |-> [j \in 1..((6 * Len(seg)) \div 8) |->
              LET o == 8 * (j - 1)
                  q == o \div 6
                  r == o % 6
                  w == seg[q + 1] * 64 + seg[q + 2]
              IN  (w \div 2^(4 - r)) % 256]]

\* jwt.DecodeSegment: pads with "=" and decodes with base64.URLEncoding, which
\* does not look at the bits of the last character beyond the last whole byte
DecodeSegment(seg) ==
    IF (\E i \in 1..Len(seg) : seg[i] > 63) \/ Len(seg) % 4 = 1
    THEN [ok |-> FALSE, bytes |-> << >>]
    ELSE [ok |-> TRUE,
          bytes |-> [j \in 1..((6 * Len(seg)) \div 8) |->
              LET o == 8 * (j - 1)
                  q == o \div 6
                  r == o % 6
                  w == seg[q + 1] * 64 + seg[q + 2]
              IN  (w \div 2^(4 - r)) % 256]]

\* token.SignedString(key): header, payload and signature segments
SignedString(key, alg, claims) ==
    [wf |-> TRUE, alg |-> alg, claims |-> claims,
     sig |-> IF alg = "HS256" THEN EncodeSegment(HMAC(key, alg, claims))
             ELSE << >>]

\* a string that is no three-segment token
EmptyString ==
    [wf |-> FALSE, alg |-> "", claims |-> [usertkn |-> JAbsent, exp |-> JAbsent],
     sig |-> << >>]

-----------------------------------------------------------------------------
(* CreateToken and VerifyToken *)

\* (mutant) the token signed under another key than VerifyToken reads
CreateToken_OtherKey(usertkn, t) ==
    [tokenString |-> SignedString(OtherKey, "HS256",
                                  MarshalClaims(usertkn, t + TokenLifetime)),
     err |-> {}]

\* (mutant) the expiry taken from the clock without the 24 hours
CreateToken_NoLifetime(usertkn, t) ==
    [tokenString |-> SignedString(SecretKey, "HS256", MarshalClaims(usertkn, t)),
     err |-> {}]

CreateToken(usertkn, t) ==
    [tokenString |-> SignedString(SecretKey, "HS256",
                                  MarshalClaims(usertkn, t + TokenLifetime)),
     err |-> {}]

\* jwt's check of "exp" (MapClaims.Valid, verifyExp): an absent or zero exp is
\* not required; otherwise the token is good while t <= exp
VerifyExp(exp, t) ==
    IF exp.t = "absent" \/ exp.n = 0 THEN TRUE ELSE t <= exp.n

\* SigningMethodHMAC.Verify, and SigningMethodNone.Verify which refuses a
\* []byte key
VerifySignature(tokenString, key) ==
    IF tokenString.alg = "HS256"
    THEN LET d == DecodeSegment(tokenString.sig)
         IN  d.ok /\ d.bytes = HMAC(key, tokenString.alg, tokenString.claims)
    ELSE FALSE

\* jwt.Parse: the flags of the ValidationError, none when the token is valid
Parse(tokenString, key, t) ==
    IF ~tokenString.wf THEN { "Malformed" }
    ELSE (IF VerifyExp(tokenString.claims.exp, t) THEN {} ELSE { "Expired" })
         \cup
         (IF VerifySignature(tokenString, key) THEN {} ELSE { "SignatureInvalid" })

\* VerifyToken: (usertkn, err), or the panic of the unchecked type assertion
\* claims["usertkn"].(string)
VerifyToken(tokenString, t) ==
    LET e == Parse(tokenString, SecretKey, t)
    IN  IF e # {}
        THEN [usertkn |-> << >>, err |-> e, panicked |-> FALSE]
        ELSE IF tokenString.claims.usertkn.t # "string"
        THEN [usertkn |-> << >>, err |-> {}, panicked |-> TRUE]
        ELSE [usertkn |-> tokenString.claims.usertkn.s, err |-> {},
              panicked |-> FALSE]

-----------------------------------------------------------------------------
(* The codec's callers *)

NotIssued == [valid |-> FALSE, id |-> << >>, at |-> 0, tokenString |-> EmptyString]
NotCalled ==
    [called |-> FALSE, at |-> 0, usertkn |-> << >>, err |-> {}, panicked |-> FALSE]
Returned(r, t) ==
    [called |-> TRUE, at |-> t, usertkn |-> r.usertkn, err |-> r.err,
     panicked |-> r.panicked]

\* time passes
Tick(d) ==
    /\ ticks < MaxTicks
    /\ ticks' = ticks + 1
    /\ now' = now + d
    /\ UNCHANGED << tok, issued, res >>

\* tokenString, err := CreateToken(id)
Issue(id) ==
    /\ tok' = CreateToken(id, now).tokenString
    /\ issued' = [valid |-> TRUE, id |-> id, at |-> now, tokenString |-> tok']
    /\ res' = NotCalled
    /\ UNCHANGED << now, ticks >>

\* a token string made elsewhere: signed under key, with any claims
Forge(key, alg, usertkn, exp) ==
    /\ tok' = SignedString(key, alg, [usertkn |-> usertkn, exp |-> exp])
    /\ issued' = NotIssued
    /\ res' = NotCalled
    /\ UNCHANGED << now, ticks >>

\* a string that does not parse
Garbage ==
    /\ tok' = EmptyString
    /\ issued' = NotIssued
    /\ res' = NotCalled
    /\ UNCHANGED << now, ticks >>

\* one character of the signature segment of an issued token is changed
Untampered == issued.valid /\ tok = issued.tokenString

Tamper(i, c) ==
    /\ i \in 1..Len(tok.sig)
    /\ c # tok.sig[i]
    /\ tok' = [tok EXCEPT !.sig[i] = c]
    /\ res' = NotCalled
    /\ UNCHANGED << now, ticks, issued >>

\* usertkn, err := VerifyToken(tok)
Verify ==
    /\ res' = Returned(VerifyToken(tok, now), now)
    /\ UNCHANGED << now, ticks, tok, issued >>

-----------------------------------------------------------------------------
(* Specifications *)

UserRow(id, name, tkn, active) ==
    [ id |-> id, name |-> name, active |-> active, last_login |-> NullT,
      tkn |-> tkn, password_expiry |-> ValidT(1) ]

Init ==
    /\ bo_user = [t \in KnownTkns |->
                    IF t = "u-42" THEN UserRow(42, "Ann", t, TRUE)
                    ELSE UserRow(7, "Bob", t, TRUE)]
    /\ bo_user_security = [i \in {42, 7} |->
                    IF i = 42 THEN Security(RowOf({"manage_users"}))
                    ELSE NoSecurity]
    /\ bo_user_locations = [i \in {42, 7} |->
                    IF i = 42 THEN << 7, 12 >> ELSE << >>]
    /\ pc = "idle"
    /\ userTkn = ""
    /\ usr = ZeroUser
    /\ err = NoErr
    /\ lastLogin = NullT
    /\ passwordExpiry = NullT
    /\ ops = << >>
    /\ logs = << >>
    /\ calls = 0
    /\ held = NotHeld
    /\ now = 1000
    /\ ticks = 0
    /\ tok = EmptyString
    /\ issued = NotIssued
    /\ res = NotCalled

Resolve ==
    \/ \E tkn \in Subjects : GetUser(tkn)
    \/ \E qerr \in BOOLEAN, k \in 0..Len(CoreCols) : CoreLookup(qerr, k)
    \/ ActiveGate
    \/ \E qerr \in BOOLEAN, k \in 0..Len(PermCols) : PermissionLoad(qerr, k)
    \/ \E qerr \in BOOLEAN, n \in 0..3, bad \in SUBSET (1..3) :
           LocationLoad(qerr, n, bad)
    \/ \E fails \in BOOLEAN : LastLoginStamp(fails)
    \/ Return

Admin ==
    \/ \E b \in BOOLEAN : AdminSetActive("u-42", b)
    \/ \E sec \in { NoSecurity } \cup { Security(r) : r \in PermRowChoices } :
           AdminSetSecurity(42, sec)
    \/ \E g \in GrantChoices : AdminSetGrants(42, g)

Next ==
    \/ Resolve /\ UNCHANGED cvars
    \/ Quiescent /\ Admin /\ UNCHANGED cvars

vars == << rvars, cvars >>

\* the resolver, the rows changing only between calls
Spec == Init /\ [][Next]_vars

\* what a token made elsewhere may carry: any subject claim and expiry under
\* this process's key, and one token each under another key and with alg none
ForgedSubjects == { JStr(<< 97 >>), JNum(7), JAbsent }
ForgedExpiries == { JAbsent, JNum(0), JNum(now - 1), JNum(now), JNum(now + 1) }
Forgeries ==
    { << SecretKey, "HS256", u, e >> : u \in ForgedSubjects, e \in ForgedExpiries }
    \cup { << OtherKey, "HS256", JStr(<< 97 >>), JNum(now + 1) >>,
            << SecretKey, "none", JStr(<< 97 >>), JNum(now + 1) >> }

Clock == \E d \in { 1, TokenLifetime - 1 } : Tick(d)

NextCodec ==
    \/ Clock /\ UNCHANGED rvars
    \/ (\E id \in Ids : Issue(id)) /\ UNCHANGED rvars
    \/ (\E f \in Forgeries : Forge(f[1], f[2], f[3], f[4])) /\ UNCHANGED rvars
    \/ Garbage /\ UNCHANGED rvars
    \/ Verify /\ UNCHANGED rvars

\* the storage round-trips of a call, with every way each can fail
Steps ==
    \/ \E qerr \in BOOLEAN, k \in 0..Len(CoreCols) : CoreLookup(qerr, k)
    \/ ActiveGate
    \/ \E qerr \in BOOLEAN, k \in 0..Len(PermCols) : PermissionLoad(qerr, k)
    \/ \E qerr \in BOOLEAN, n \in 0..3, bad \in SUBSET (1..3) :
           LocationLoad(qerr, n, bad)
    \/ \E fails \in BOOLEAN : LastLoginStamp(fails)

\* the same, a read failing or delivering everything it was asked for
StepsWhole ==
    \/ \E qerr \in BOOLEAN, k \in { 0, Len(CoreCols) } : CoreLookup(qerr, k)
    \/ ActiveGate
    \/ \E qerr \in BOOLEAN, k \in { 0, Len(PermCols) } : PermissionLoad(qerr, k)
    \/ \E qerr \in BOOLEAN, n \in 0..3 : LocationLoad(qerr, n, {})
    \/ \E fails \in BOOLEAN : LastLoginStamp(fails)

NextHeld ==
    \/ (\E tkn \in Subjects : GetUser(tkn)) /\ UNCHANGED cvars
    \/ StepsWhole /\ UNCHANGED cvars
    \/ ReturnHeld /\ UNCHANGED cvars
    \/ Quiescent /\ Admin /\ UNCHANGED cvars

\* GetUser calls one after another, the caller keeping each result, the rows
\* changing between calls
SpecHeld == Init /\ [][NextHeld]_vars

NextGet ==
    \/ (\E tkn \in Subjects : Get(tkn)) /\ UNCHANGED cvars
    \/ Steps /\ UNCHANGED cvars
    \/ ReturnHeld /\ UNCHANGED cvars

\* User.Get called again and again on one User value
SpecGet == Init /\ [][NextGet]_vars

NextConc ==
    \/ Resolve /\ UNCHANGED cvars
    \/ Admin /\ UNCHANGED cvars

\* the resolver, the rows changing at any time, also between two round-trips
\* of a call
SpecConc == Init /\ [][NextConc]_vars

\* the resolver, a call in progress running on until it returns
SpecLive == Spec /\ WF_vars(Resolve /\ UNCHANGED cvars)

\* the codec: issuing, presenting and verifying credentials as time passes
SpecCodec == Init /\ [][NextCodec]_vars

TamperIds == { << 97 >>, << 97, 97 >> }

NextTamper ==
    \/ (\E id \in TamperIds : Issue(id)) /\ UNCHANGED rvars
    \/ (Untampered /\ \E i \in 1..Len(tok.sig), c \in 0..64 : Tamper(i, c))
           /\ UNCHANGED rvars
    \/ Verify /\ UNCHANGED rvars

\* the codec, with the signature segment of issued credentials altered
SpecTamper == Init /\ [][NextTamper]_vars

NextService ==
    \/ Next
    \/ Issue(<< 97 >>) /\ UNCHANGED rvars
    \/ Verify /\ UNCHANGED rvars

\* both components in one process: credentials issued and verified while
\* calls of the resolver run
SpecService == Init /\ [][NextService]_vars

-----------------------------------------------------------------------------
(* Properties of the resolver *)

\* the storage operations a call has issued
Issued(op) == \E i \in 1..Len(ops) : ops[i].op = op
Reply(op) == ops[CHOOSE i \in 1..Len(ops) : ops[i].op = op].reply

\* the core lookup of the call in progress or just finished delivered the row
RowLoaded == pc \in { "gate", "perm", "loc", "login", "done", "failed" }
                 /\ Issued("core") /\ Reply("core") = "row"

\* C1. Inactive gate precedence: a call whose loaded bo_user row has
\* active=false ends with ErrUserInActive having issued the core lookup only
\* (no permission lookup, no location lookup, no last-login write), whatever
\* those operations would have done; so no call is ever past the gate for an
\* inactive row.
C1_InactiveGatePrecedence ==
    (RowLoaded /\ pc # "gate" /\ ~bo_user[userTkn].active)
        => /\ pc = "failed"
           /\ err = ErrUserInActive
           /\ ops = << Op("core", "row") >>
           /\ logs = << >>
           /\ bo_user[userTkn].last_login = lastLogin

\* an inactive account with a security row and grants was refused
C1_Witness ==
    /\ pc = "failed"
    /\ err = ErrUserInActive
    /\ ~bo_user[userTkn].active
    /\ bo_user_security[usr.ID].present
    /\ LocRows(bo_user_locations[usr.ID]) # << >>

\* C2. Deny-by-default permissions (as claimed): a call for an active user
\* whose permission lookup finds no row or fails in any way, a failure part-way
\* through the row included, returns no error and a User with every permission
\* flag false.
C2_DenyByDefault ==
    (pc = "done" /\ Reply("perm") \in { "norows", "error", "scanerror" })
        => /\ err = NoErr
           /\ usr.Permissions = ZeroPermissions

\* C8. Degraded-mode success: past the gate a call only moves on towards done,
\* whatever the permission lookup, the location lookup, its rows and the
\* last-login write do; it ends done with no error; and a call fails only at
\* the core lookup or at the gate.
C8_OnlyForward ==
    [][ /\ pc \in { "perm", "loc", "login" }
            => (pc' \in { "loc", "login", "done" } /\ pc' # pc /\ err' = NoErr)
        /\ (pc' = "failed" /\ pc # "failed") => pc \in { "core", "gate" }
        /\ pc' = "done" => err' = NoErr
      ]_vars

\* C8 (termination). A call that has passed the gate reaches done: a Go call
\* runs on until it returns, so its steps are taken when they can be.
C8_ReachesDone == (pc = "perm") ~> (pc = "done")

C8_DegradedModeSuccess == C8_OnlyForward /\ C8_ReachesDone

\* a call came through with all three degraded steps failing
C8_Witness ==
    /\ pc = "done"
    /\ err = NoErr
    /\ Reply("perm") = "error"
    /\ Reply("loc") = "rowerror"
    /\ Reply("login") = "error"

\* C9. Unknown subject vs storage fault: the call returns ErrInvalidUserToken
\* exactly when the core lookup found no row, the storage error exactly when
\* the core lookup failed otherwise, and in neither case goes on or succeeds.
C9_UnknownSubjectVsStorageFault ==
    Issued("core") =>
        /\ err = ErrInvalidUserToken <=> Reply("core") = "norows"
        /\ err = ErrStorage <=> Reply("core") \in { "error", "scanerror" }
        /\ Reply("core") = "norows" => userTkn \notin DOMAIN bo_user
        /\ Reply("core") \in { "row", "scanerror" } => userTkn \in DOMAIN bo_user
        /\ Reply("core") # "row" => (pc = "failed" /\ Len(ops) = 1)

\* a subject without a row was refused as unknown
C9_Witness ==
    /\ pc = "failed"
    /\ userTkn = "u-0"
    /\ err = ErrInvalidUserToken

\* the column each permission flag is tagged with (struct Permissions)
PermTag ==
    [ ManageTariff |-> "manage_tariff", ManagePermits |-> "manage_permits",
      ViewReports |-> "view_reports", ManageLocations |-> "manage_locations",
      ManageUsers |-> "manage_users", ManageContacts |-> "manage_contacts",
      ManageCustomerSupport |-> "manage_customer_support",
      ViewAPI |-> "view_api", ManageAPI |-> "manage_api",
      BannedVehicles |-> "banned_vehicles", Marketing |-> "marketing" ]

\* the call read everything it asked for
FullSuccess ==
    /\ pc = "done"
    /\ Reply("perm") = "row"
    /\ Reply("loc") = "rows"

\* the stored grants of user id with a positive location identifier
PositiveGrants(id) ==
    { l \in { bo_user_locations[id][i] : i \in 1..Len(bo_user_locations[id]) } :
          l > 0 }

\* C10. Exact hydration on full success: when the row is active and the
\* permission lookup, the location lookup and every row read succeed, the call
\* returns no error, the eleven loaded flags equal the stored security row and
\* ExportData is false, Locations is exactly the user's stored grants with
\* identifier > 0, each with its site name or "", and one last-login write
\* for that user was issued.
C10_ExactHydration ==
    FullSuccess =>
        /\ err = NoErr
        /\ usr.ID = bo_user[userTkn].id
        /\ \A f \in DOMAIN PermTag :
               usr.Permissions[f] = bo_user_security[usr.ID].row[PermTag[f]]
        /\ ~usr.Permissions["ExportData"]
        /\ ~usr.Locations.isNil
        /\ DOMAIN usr.Locations.kv = PositiveGrants(usr.ID)
        /\ \A l \in DOMAIN usr.Locations.kv :
               usr.Locations.kv[l] =
                   IF \E r \in LocationsTable : r.code = l /\ r.sitename.Valid
                   THEN (CHOOSE r \in LocationsTable : r.code = l).sitename.String
                   ELSE ""
        /\ Cardinality({ i \in 1..Len(ops) : ops[i].op = "login" }) = 1
        /\ Reply("login") = "ok" => bo_user[userTkn].last_login = ValidT(DbNow)

\* the end-to-end scenario: manage_users only, grants 7 (named) and 12 (unnamed)
C10_Witness ==
    /\ FullSuccess
    /\ userTkn = "u-42"
    /\ \A f \in PermFields : usr.Permissions[f] <=> f = "ManageUsers"
    /\ DOMAIN usr.Locations.kv = { 7, 12 }
    /\ usr.Locations.kv[7] = "North Depot"
    /\ usr.Locations.kv[12] = ""
    /\ Reply("login") = "ok"

\* the resolved name of location l: its sitename, "" when it has none
ResolvedName(l) ==
    IF \E r \in LocationsTable : r.code = l /\ r.sitename.Valid
    THEN (CHOOSE r \in LocationsTable : r.code = l).sitename.String
    ELSE ""

\* C11. Location grants are never fabricated: a call that returns no error
\* returns an initialized Locations map whose keys are all location
\* identifiers > 0 granted to this user in the store, each with the resolved
\* name of that location or ""; when the location query fails the map is
\* empty, and when the rows break off or fail to read it holds a part of the
\* stored grants only.
C11_NoFabricatedGrants ==
    pc = "done" =>
        /\ err = NoErr
        /\ ~usr.Locations.isNil
        /\ DOMAIN usr.Locations.kv \subseteq PositiveGrants(usr.ID)
        /\ \A l \in DOMAIN usr.Locations.kv :
               l > 0 /\ usr.Locations.kv[l] \in { ResolvedName(l), "" }
        /\ Reply("loc") = "error" => DOMAIN usr.Locations.kv = {}
        /\ Reply("loc") = "rows" => DOMAIN usr.Locations.kv = PositiveGrants(usr.ID)

\* a call came through with a row of the grants unread: of the grants 3 and 7
\* it returns 7 alone
C11_Witness ==
    /\ pc = "done"
    /\ Reply("loc") = "rowerror"
    /\ PositiveGrants(usr.ID) = { 3, 7 }
    /\ ~usr.Locations.isNil
    /\ DOMAIN usr.Locations.kv = { 7 }

\* the call in progress was refused for an account that is inactive
DeniedInactive == pc = "failed" /\ RowLoaded /\ ~bo_user[userTkn].active

\* the caller holds the outcome of a call for a subject with no matching row,
\* the lookup itself having worked
HeldUnknown ==
    held.called /\ held.tkn \notin DOMAIN bo_user /\ held.err # ErrStorage

\* C12 (as claimed). Indistinguishable denial: what a call returns for a
\* subject whose account is inactive is what a call returns for a subject with
\* no matching row: the same error and the same User.
C12_IndistinguishableDenial ==
    (DeniedInactive /\ HeldUnknown) => (err = held.err /\ usr = held.usr)

\* C12 (amended). Both denials are a non-nil error with no permission flag
\* set and no Locations map, after the core lookup alone and without a notice;
\* they differ in the error (ErrUserInActive against ErrInvalidUserToken) and
\* in the User, which for the inactive account carries the fields of its
\* bo_user row and for the unknown subject is the zero User.
C12_DistinguishableDenial ==
    /\ DeniedInactive =>
           /\ err = ErrUserInActive
           /\ usr = [ZeroUser EXCEPT !.ID = bo_user[userTkn].id,
                                     !.Name = bo_user[userTkn].name,
                                     !.Tkn = bo_user[userTkn].tkn]
           /\ usr # ZeroUser
           /\ ops = << Op("core", "row") >>
           /\ logs = << >>
    /\ HeldUnknown => (held.err = ErrInvalidUserToken /\ held.usr = ZeroUser)

\* an inactive account is refused after an unknown subject was
C12_Witness ==
    /\ DeniedInactive
    /\ HeldUnknown
    /\ userTkn = "u-42"
    /\ held.tkn = "u-0"

\* C13. No transient computation for a deactivated account: whenever a call
\* loads the permissions, loads the location grants or stamps last_login, the
\* active flag stored for its user is true at that moment, however the
\* administrative surface's changes fall between the steps of the call.
C13_NoLoadWhenDeactivated ==
    [][ (pc \in { "perm", "loc", "login" } /\ pc' # pc)
            => bo_user[userTkn].active ]_vars

\* the order of section 4.2: core record, permissions, locations, last login
OpOrder == << "core", "perm", "loc", "login" >>

\* C14. Fixed order, no retries: at every point of every call the storage
\* operations issued so far are the first ones of core lookup, permission
\* lookup, location lookup, last-login write, each once whatever the store
\* replied; the write comes fourth, after the three reads, and a call that
\* returns no error has issued all four.
C14_FixedOrderNoRetries ==
    /\ Len(ops) <= Len(OpOrder)
    /\ \A i \in 1..Len(ops) : ops[i].op = OpOrder[i]
    /\ \A i \in 1..Len(ops) : ops[i].op = "login" => i = 4
    /\ pc = "done" => Len(ops) = 4

\* a call issued the four operations in order, each of them failing
C14_Witness ==
    /\ pc = "done"
    /\ ops = << Op("core", "row"), Op("perm", "error"), Op("loc", "error"),
                Op("login", "error") >>

\* a step of a call of the resolver
CallStep == pc # "idle" \/ pc' # "idle"

\* a step of the codec
CodecStep == tok' # tok \/ res' # res \/ issued' # issued

\* what a step of a call may change in the store: nothing, or at the
\* last-login write last_login of the row of the call's subject
C15_WritesLastLoginOnly ==
    [][ /\ CallStep =>
            /\ bo_user_security' = bo_user_security
            /\ bo_user_locations' = bo_user_locations
            /\ \A t \in DOMAIN bo_user :
                   bo_user'[t] # bo_user[t] =>
                       /\ t = userTkn
                       /\ pc = "login" /\ pc' = "done"
                       /\ bo_user'[t] =
                              [bo_user[t] EXCEPT !.last_login = ValidT(DbNow)]
        /\ pc' = "failed" => store' = store
        /\ CodecStep => store' = store
      ]_vars

\* a call that returns an error has issued no write
C15_NoWriteOnError == pc = "failed" => ~Issued("login")

\* C15. Narrow write: the only change a call of the resolver makes to the
\* store is last_login of the row of the subject it resolved, set by the
\* last-login write; a call that returns an error (unknown subject, storage
\* fault, inactive account) issues no write and changes nothing; CreateToken
\* and VerifyToken change nothing in the store.
C15_NarrowWrite == []C15_NoWriteOnError /\ C15_WritesLastLoginOnly

\* user 42 was stamped, user 7 was not, and a credential was verified meanwhile
C15_Witness ==
    /\ pc = "done"
    /\ userTkn = "u-42"
    /\ Reply("login") = "ok"
    /\ bo_user["u-42"].last_login = ValidT(DbNow)
    /\ bo_user["u-7"].last_login = NullT
    /\ res.called /\ res.err = {}

\* C16. Changes take effect immediately: whatever earlier calls returned and
\* whatever the administrative surface changed since, a GetUser call issues
\* its own reads and returns what the rows hold when it runs: ErrUserInActive
\* if the row is inactive, and for an active row the flags of the security row
\* it read (all false if there is none or the query failed) and the location
\* grants it read.
C16_ChangesTakeEffect ==
    pc \in { "done", "failed" } =>
        /\ Issued("core")
        /\ Reply("core") = "row" =>
               IF bo_user[userTkn].active
               THEN pc = "done" /\ Len(ops) = 4
               ELSE pc = "failed" /\ err = ErrUserInActive
        /\ pc = "done" =>
               /\ Reply("perm") = "row" =>
                      \A f \in DOMAIN PermTag :
                          usr.Permissions[f]
                              = bo_user_security[usr.ID].row[PermTag[f]]
               /\ Reply("perm") \in { "norows", "error" } =>
                      usr.Permissions = ZeroPermissions
               /\ Reply("loc") = "rows" =>
                      /\ DOMAIN usr.Locations.kv = PositiveGrants(usr.ID)
                      /\ \A l \in DOMAIN usr.Locations.kv :
                             usr.Locations.kv[l] = ResolvedName(l)
               /\ usr.LastLogin = IF lastLogin.Valid THEN lastLogin.Time ELSE 0

\* user 42 resolved a second time after its security row and its grants were
\* changed: the caller holds the User of the first call, the second returns
\* the new flags and the new grants
C16_Witness ==
    /\ FullSuccess
    /\ userTkn = "u-42"
    /\ held.called /\ held.tkn = "u-42" /\ held.err = NoErr
    /\ held.usr.Permissions = [ZeroPermissions EXCEPT !.ManageUsers = TRUE]
    /\ DOMAIN held.usr.Locations.kv = { 7, 12 }
    /\ usr.Permissions = [ZeroPermissions EXCEPT !.ManageTariff = TRUE,
                                                 !.Marketing = TRUE]
    /\ DOMAIN usr.Locations.kv = { 3, 7 }
    /\ usr.LastLogin = 2

\* the call sent the logger a notice from one of the places in S
Noticed(S) == \E i \in 1..Len(logs) : logs[i].at \in S

\* C17. Observability of degradation: a call that returns no error has sent
\* the logger a notice for every failure it absorbed (permission row missing
\* or unreadable; location query failed; location rows unreadable or their
\* iteration broken off; last-login write failed), and a call that returns an
\* error has sent none.
C17_DegradationObserved ==
    /\ pc = "failed" => logs = << >>
    /\ pc = "done" =>
           /\ Reply("perm") \in { "norows", "error", "scanerror" }
                  => Noticed({ "perm" })
           /\ Reply("loc") \in { "error", "broken", "rowerror" }
                  => Noticed({ "loc", "loc-row" })
           /\ Reply("login") = "error" => Noticed({ "login" })

\* C18. The result of User.Get does not depend on what the receiver held:
\* after any sequence of Get calls on one User value, a Get that returns no
\* error leaves the permission flags, LastLogin and PasswordExpiryDate as a Get
\* on a zero User does: the flags of the security row read, all false when
\* there is no row or the query failed, and the zero instant for a null
\* last_login or password_expiry.
C18_ReceiverIndependent ==
    pc = "done" =>
        /\ Reply("perm") = "row" =>
               /\ \A f \in DOMAIN PermTag :
                      usr.Permissions[f]
                          = bo_user_security[usr.ID].row[PermTag[f]]
               /\ ~usr.Permissions["ExportData"]
        /\ Reply("perm") \in { "norows", "error" } =>
               usr.Permissions = ZeroPermissions
        /\ usr.LastLogin = IF lastLogin.Valid THEN lastLogin.Time ELSE 0
        /\ usr.PasswordExpiryDate =
               IF passwordExpiry.Valid THEN passwordExpiry.Time ELSE 0

\* C19. Whenever GetUser returns a non-nil error (unknown subject, storage
\* fault or inactive account), the User returned with it is the zero User: no
\* identifier, name, subject token, permissions or locations of any account.
C19_ZeroUserOnError ==
    pc = "failed" => (err # NoErr /\ usr = ZeroUser)

-----------------------------------------------------------------------------
(* Properties of the codec *)

\* tok carries the signature VerifyToken computes for its header and claims
CorrectlySigned == tok.wf /\ VerifySignature(tok, SecretKey)

\* tok carries an expiry claim (jwt takes an exp of zero as none)
HasExpiry == tok.claims.exp.t = "number" /\ tok.claims.exp.n # 0

Succeeded == res.called /\ res.err = {} /\ ~res.panicked

\* s is UTF-8 text
RECURSIVE ValidUTF8(_)
ValidUTF8(s) ==
    IF s = << >> THEN TRUE
    ELSE RuneWidth(s) > 0 /\ ValidUTF8(SubSeq(s, RuneWidth(s) + 1, Len(s)))

\* C3. VerifyToken rejects with an expiry error every correctly signed
\* credential whose expiry is at or before the time of verification, the
\* instant now = exp included.
C3_RejectsAtOrBeforeNow ==
    (res.called /\ CorrectlySigned /\ HasExpiry /\ tok.claims.exp.n <= res.at)
        => "Expired" \in res.err

\* what C4 says of an issued credential at any one time, the subject returned
\* being the string CreateToken was given
C4_WindowExact ==
    Untampered =>
        /\ tok.claims.exp = JNum(issued.at + TokenLifetime)
        /\ (res.called /\ res.at = issued.at + TokenLifetime - 1)
               => (Succeeded /\ res.usertkn = issued.id)
        /\ (res.called /\ res.at = issued.at + TokenLifetime + 1)
               => res.err = { "Expired" }

\* the same, the subject returned being the string given when that is UTF-8
C4_Window ==
    Untampered =>
        /\ tok.claims.exp = JNum(issued.at + TokenLifetime)
        /\ (res.called /\ res.at = issued.at + TokenLifetime - 1)
               => /\ Succeeded
                  /\ res.usertkn = issued.id <=> ValidUTF8(issued.id)
        /\ (res.called /\ res.at = issued.at + TokenLifetime + 1)
               => res.err = { "Expired" }

\* once a verification of a credential failed for expiry, no later
\* verification of the same credential succeeds
C4_ExpiredStaysExpired ==
    [][ (res.called /\ "Expired" \in res.err /\ tok' = tok) => ~Succeeded' ]_vars

C6_ClaimMissing ==
    (res.called /\ CorrectlySigned /\ HasExpiry /\ tok.claims.exp.n > res.at
        /\ tok.claims.usertkn.t # "string")
        => (res.err # {} /\ ~res.panicked /\ res.usertkn = << >>)

\* tok is an issued credential with its signature segment altered
Tampered == issued.valid /\ tok # issued.tokenString

\* the altered signature segment decodes to the bytes of the issued one: only
\* its last character differs, and only in the two bits past the last byte
SameSignatureBytes ==
    LET o == issued.tokenString.sig
        n == Len(o)
    IN  /\ \A i \in 1..(n - 1) : tok.sig[i] = o[i]
        /\ tok.sig[n] <= 63
        /\ tok.sig[n] \div 4 = o[n] \div 4

====
